---- MODULE Spec2Model ----
(***************************************************************************)
(* Model of memgraph/query_modules/ivy_debezium.py: the transformation of  *)
(* Debezium change events into Cypher MERGE statements.                    *)
(*                                                                         *)
(* Text is a sequence of one-character strings (the fixed fragments of a   *)
(* statement's template are single elements).  A JSON/Python value is a    *)
(* record [t, n, s, l]: t is the type tag, n the number (or 0/1 of a       *)
(* boolean, or the entry count of a nested mapping), s the characters of a *)
(* text (or the compact JSON form of a nested mapping), l the elements of  *)
(* a list.                                                                 *)
(***************************************************************************)
EXTENDS Integers, Sequences, FiniteSets, TLC

VARIABLES
    pc,         \* position of the running call
    v, lit,     \* _cypher_literal: argument and result
    var, props, skip, clauses,  \* _set_props: arguments and result
    message_value, row, cypher, \* the statement builders: argument, selected row, result
    transform, messages, i, result,     \* a transformation: which, its batch, loop index, records
    graph, first, bound, engine         \* the graph a statement is applied to

literalVars == <<v, lit>>
setVars == <<var, props, skip, clauses>>
buildVars == <<message_value, row, cypher>>
batchVars == <<transform, messages, i, result>>
graphVars == <<graph, first, bound, engine>>
vars == <<pc, literalVars, setVars, buildVars, batchVars, graphVars>>

\* ------------------------------------------------------------------ bounds
MaxLen == 4
MaxProps == 3
MaxData == 2
MaxBatch == 3

\* ------------------------------------------------------------------ text
BS == "\\"
QT == "'"
Alphabet == {"a", BS, QT}

RECURSIVE TextsOfLen(_)
TextsOfLen(n) ==
    IF n = 0 THEN {<<>>}
    ELSE {Append(t, c) : t \in TextsOfLen(n - 1), c \in Alphabet}

\* str.replace(c, r) for a one-character pattern c.
RECURSIVE Replace(_, _, _)
Replace(s, c, r) ==
    IF s = <<>> THEN <<>>
    ELSE (IF Head(s) = c THEN r ELSE <<Head(s)>>) \o Replace(Tail(s), c, r)

\* sep.join(parts)
RECURSIVE Join(_, _)
Join(sep, parts) ==
    IF parts = <<>> THEN <<>>
    ELSE IF Len(parts) = 1 THEN parts[1]
    ELSE parts[1] \o sep \o Join(sep, Tail(parts))

DigitChar(d) == <<"0", "1", "2", "3", "4", "5", "6", "7", "8", "9">>[d + 1]

RECURSIVE NatStr(_)
NatStr(n) == IF n < 10 THEN <<DigitChar(n)>> ELSE NatStr(n \div 10) \o <<DigitChar(n % 10)>>

\* str(n) of an int
IntStr(n) == IF n < 0 THEN <<"-">> \o NatStr(-n) ELSE NatStr(n)

\* ------------------------------------------------------------------ values
NoneV == [t |-> "null", n |-> 0, s |-> <<>>, l |-> <<>>]
BoolV(b) == [t |-> "bool", n |-> IF b THEN 1 ELSE 0, s |-> <<>>, l |-> <<>>]
NumV(k) == [t |-> "num", n |-> k, s |-> <<>>, l |-> <<>>]
StrV(x) == [t |-> "str", n |-> 0, s |-> x, l |-> <<>>]
ListV(xs) == [t |-> "list", n |-> 0, s |-> <<>>, l |-> xs]
\* a nested mapping with k entries whose json.dumps(., separators=(",", ":")) is x
MapV(k, x) == [t |-> "map", n |-> k, s |-> x, l |-> <<>>]

\* ------------------------------------------------------------------ literal encoder
CypherEscapeStringSwapped(s) == Replace(Replace(s, QT, <<BS, QT>>), BS, <<BS, BS>>)

CypherEscapeString(s) == Replace(Replace(s, BS, <<BS, BS>>), QT, <<BS, QT>>)

RECURSIVE CypherLiteral(_)
CypherLiteral(x) ==
    CASE x.t = "null" -> <<"N", "U", "L", "L">>
      [] x.t = "bool" -> IF x.n = 1 THEN <<"t", "r", "u", "e">> ELSE <<"f", "a", "l", "s", "e">>
      [] x.t = "num" -> IntStr(x.n)
      [] x.t = "str" -> <<QT>> \o CypherEscapeString(x.s) \o <<QT>>
      [] x.t = "list" ->
            <<"[">> \o Join(<<",", " ">>, [j \in 1..Len(x.l) |-> CypherLiteral(x.l[j])]) \o <<"]">>
      [] OTHER -> <<QT>> \o CypherEscapeString(x.s) \o <<QT>>

\* ------------------------------------------------------------------ property-set builder
Letters == {"a", "b", "c", "d", "e", "f", "g", "h", "i", "j", "k", "l", "m", "n", "o", "p", "q",
            "r", "s", "t", "u", "v", "w", "x", "y", "z",
            "A", "B", "C", "D", "E", "F", "G", "H", "I", "J", "K", "L", "M", "N", "O", "P", "Q",
            "R", "S", "T", "U", "V", "W", "X", "Y", "Z"}
Digits == {"0", "1", "2", "3", "4", "5", "6", "7", "8", "9"}

\* str.isalnum(): at least one character, and every character a letter or a digit
IsAlnum(s) == s # <<>> /\ \A j \in 1..Len(s) : s[j] \in Letters \cup Digits

\* k.replace("_", "").isalnum()
IsSafeKey(k) == IsAlnum(Replace(k, "_", <<>>))

\* f"SET {var}.{k} = {_cypher_literal(v)}"
SetClause(w, k, x) == <<"S", "E", "T", " ">> \o w \o <<".">> \o k \o <<" ", "=", " ">> \o CypherLiteral(x)

\* the entries of pr, in iteration order, that _set_props turns into clauses
RECURSIVE SetAssignments(_, _)
SetAssignments(pr, sk) ==
    IF pr = <<>> THEN <<>>
    ELSE LET e == Head(pr)
             rest == SetAssignments(Tail(pr), sk)
         IN  IF e.k \in sk THEN rest
             ELSE IF ~IsSafeKey(e.k) THEN rest
             ELSE <<e>> \o rest

\* the list `clauses` of _set_props; pr is the mapping in iteration order
SetPropsClauses(w, pr, sk) ==
    LET as == SetAssignments(pr, sk)
    IN  [j \in 1..Len(as) |-> SetClause(w, as[j].k, as[j].v)]

SetProps(w, pr, sk) == Join(<<"\n">>, SetPropsClauses(w, pr, sk))

\* ------------------------------------------------------------------ rows and envelopes
AbsentV == [t |-> "absent", n |-> 0, s |-> <<>>, l |-> <<>>]

FId == "id"
FTenantId == "tenant_id"
FEntityType == "entity_type"
FVersion == "version"
FSourceCount == "source_count"
FCreatedAt == "created_at"
FUpdatedAt == "updated_at"
FDeletedAt == "deleted_at"
FRelationshipType == "relationship_type"
FFromId == "from_merged_entity_id"
FToId == "to_merged_entity_id"
FFromType == "from_entity_type"
FToType == "to_entity_type"
FSourcePlanId == "source_plan_id"
FSourceExecutionId == "source_execution_id"

\* the characters of a field name, as a property key
FieldKey ==
    [id |-> <<"i", "d">>,
     tenant_id |-> <<"t", "e", "n", "a", "n", "t", "_", "i", "d">>,
     entity_type |-> <<"e", "n", "t", "i", "t", "y", "_", "t", "y", "p", "e">>,
     version |-> <<"v", "e", "r", "s", "i", "o", "n">>,
     source_count |-> <<"s", "o", "u", "r", "c", "e", "_", "c", "o", "u", "n", "t">>,
     created_at |-> <<"c", "r", "e", "a", "t", "e", "d", "_", "a", "t">>,
     updated_at |-> <<"u", "p", "d", "a", "t", "e", "d", "_", "a", "t">>,
     deleted_at |-> <<"d", "e", "l", "e", "t", "e", "d", "_", "a", "t">>,
     relationship_type |-> <<"r", "e", "l", "a", "t", "i", "o", "n", "s", "h", "i", "p", "_", "t", "y", "p", "e">>,
     from_merged_entity_id |-> <<"f", "r", "o", "m", "_", "m", "e", "r", "g", "e", "d", "_", "e", "n", "t", "i", "t", "y", "_", "i", "d">>,
     to_merged_entity_id |-> <<"t", "o", "_", "m", "e", "r", "g", "e", "d", "_", "e", "n", "t", "i", "t", "y", "_", "i", "d">>,
     from_entity_type |-> <<"f", "r", "o", "m", "_", "e", "n", "t", "i", "t", "y", "_", "t", "y", "p", "e">>,
     to_entity_type |-> <<"t", "o", "_", "e", "n", "t", "i", "t", "y", "_", "t", "y", "p", "e">>,
     source_plan_id |-> <<"s", "o", "u", "r", "c", "e", "_", "p", "l", "a", "n", "_", "i", "d">>,
     source_execution_id |-> <<"s", "o", "u", "r", "c", "e", "_", "e", "x", "e", "c", "u", "t", "i", "o", "n", "_", "i", "d">>]

RowFields == {FId, FTenantId, FEntityType, FVersion, FSourceCount, FCreatedAt, FUpdatedAt,
              FDeletedAt, FRelationshipType, FFromId, FToId, FFromType, FToType,
              FSourcePlanId, FSourceExecutionId}

\* A row is [f, data]: f maps every field name to its value (AbsentV: the key
\* is not in the row); data is the `data` field, [k, m]: k its shape and m
\* the entries, in iteration order, of the mapping it is or parses to.
NoData == [k |-> "absent", m |-> <<>>]
EmptyFields ==
    [id |-> AbsentV, tenant_id |-> AbsentV, entity_type |-> AbsentV,
     version |-> AbsentV, source_count |-> AbsentV, created_at |-> AbsentV,
     updated_at |-> AbsentV, deleted_at |-> AbsentV, relationship_type |-> AbsentV,
     from_merged_entity_id |-> AbsentV, to_merged_entity_id |-> AbsentV,
     from_entity_type |-> AbsentV, to_entity_type |-> AbsentV,
     source_plan_id |-> AbsentV, source_execution_id |-> AbsentV]
EmptyRow == [f |-> EmptyFields, data |-> NoData]

\* row.get(k)
Get(r, k) == IF r.f[k].t = "absent" THEN NoneV ELSE r.f[k]

\* k in row
Has(r, k) == r.f[k].t # "absent"

\* bool(x)
Truthy(x) ==
    CASE x.t = "bool" -> x.n = 1
      [] x.t = "num" -> x.n # 0
      [] x.t = "str" -> x.s # <<>>
      [] x.t = "list" -> x.l # <<>>
      [] x.t = "map" -> x.n > 0
      [] OTHER -> FALSE

\* str(x); the lists of the model hold numbers only, its mappings are empty
RECURSIVE PyStr(_)
PyStr(x) ==
    CASE x.t = "null" -> <<"N", "o", "n", "e">>
      [] x.t = "bool" -> IF x.n = 1 THEN <<"T", "r", "u", "e">> ELSE <<"F", "a", "l", "s", "e">>
      [] x.t = "num" -> IntStr(x.n)
      [] x.t = "str" -> x.s
      [] x.t = "list" ->
            <<"[">> \o Join(<<",", " ">>, [j \in 1..Len(x.l) |-> PyStr(x.l[j])]) \o <<"]">>
      [] OTHER -> x.s

\* a snapshot (`before` / `after`): k is "absent", "null", "other" or "map"
NoRow == [k |-> "absent", row |-> EmptyRow]
MapSnap(r) == [k |-> "map", row |-> r]

\* an envelope mapping: top holds its own op/after/before, pk says whether it
\* has a "payload" key ("absent"), one that is no mapping ("other") or one
\* that is the mapping inner ("map")
EmptyInner == [op |-> "absent", after |-> NoRow, before |-> NoRow]
EmptyEnv == [pk |-> "absent", inner |-> EmptyInner, top |-> EmptyInner]

\* what json.loads gives: t is "bad" (it raises), "null", "bool", "num", "str",
\* "list" or "map" (then env is the mapping)
NoDoc == [t |-> "none", env |-> EmptyEnv]

\* ------------------------------------------------------------------ envelope decoder
\* message: [kind, doc]; kind is "none", "bytes_bad" (not UTF-8), "bytes",
\* "text", "dict" or "other"
AsObj(m) ==
    CASE m.kind = "none" -> NoDoc
      [] m.kind = "bytes_bad" -> NoDoc
      [] m.kind \in {"bytes", "text"} ->
            IF m.doc.t \in {"bad", "null"} THEN NoDoc ELSE m.doc
      [] m.kind = "dict" -> m.doc
      [] OTHER -> NoDoc

Payload(env) == IF env.pk = "map" THEN env.inner ELSE env.top

\* ------------------------------------------------------------------ row extractor
SelectRowBeforeFirst(p) ==
    IF p.before.k = "map" THEN p.before
    ELSE IF p.after.k = "map" THEN p.after
    ELSE NoRow

SelectRow(p) ==
    IF p.after.k = "map" THEN p.after
    ELSE IF p.before.k = "map" THEN p.before
    ELSE NoRow

\* ------------------------------------------------------------------ property map
\* props[k] = x on a mapping kept in insertion order
RECURSIVE Put(_, _, _)
Put(pr, k, x) ==
    IF pr = <<>> THEN <<[k |-> k, v |-> x]>>
    ELSE IF Head(pr).k = k THEN <<[k |-> k, v |-> x]>> \o Tail(pr)
    ELSE <<Head(pr)>> \o Put(Tail(pr), k, x)

\* props[k]
RECURSIVE PropGet(_, _)
PropGet(pr, k) ==
    IF pr = <<>> THEN NoneV
    ELSE IF Head(pr).k = k THEN Head(pr).v
    ELSE PropGet(Tail(pr), k)

\* for k in ks: if k in row: props[k] = row.get(k)
RECURSIVE CopyKnown(_, _, _)
CopyKnown(pr, r, ks) ==
    IF ks = <<>> THEN pr
    ELSE CopyKnown(IF Has(r, Head(ks)) THEN Put(pr, FieldKey[Head(ks)], Get(r, Head(ks))) ELSE pr,
                   r, Tail(ks))

\* for k, v in data.items(): props[k] = v
RECURSIVE Overlay(_, _)
Overlay(pr, entries) ==
    IF entries = <<>> THEN pr
    ELSE Overlay(Put(pr, Head(entries).k, Head(entries).v), Tail(entries))

\* `row.get("data") or {}`, parsed when it is text; the entries merged into
\* props: those of the mapping, none when the result is no mapping
DataEntries(d) ==
    CASE d.k = "map" -> d.m
      [] d.k = "text_map" -> d.m
      [] OTHER -> <<>>

\* ------------------------------------------------------------------ statements
\* The result of a builder: kind is "none" (None returned), "raise" (an
\* exception leaves the builder), "entity" or "relationship"; merges are the
\* MERGE clauses [w, label, id, tenant] in order, sets the SET clauses as
\* [k, lit], text the statement.
NoneResult == [kind |-> "none", merges |-> <<>>, sets |-> <<>>, text |-> <<>>]
RaiseResult == [kind |-> "raise", merges |-> <<>>, sets |-> <<>>, text |-> <<>>]

MergeClause(w, label, id, tenant) == [w |-> w, label |-> label, id |-> id, tenant |-> tenant]

NodeText(m) ==
    <<"(">> \o m.w \o <<":">> \o m.label \o <<" {id: ">> \o m.id \o <<", tenant_id: ">>
        \o m.tenant \o <<"})">>

EntityRequiredNoTenant(r) == Truthy(Get(r, FId)) /\ Truthy(Get(r, FEntityType))

EntityRequired(r) ==
    Truthy(Get(r, FId)) /\ Truthy(Get(r, FTenantId)) /\ Truthy(Get(r, FEntityType))

EntityProps(r) ==
    Overlay(CopyKnown(<<[k |-> FieldKey[FId], v |-> StrV(PyStr(Get(r, FId)))],
                        [k |-> FieldKey[FTenantId], v |-> StrV(PyStr(Get(r, FTenantId)))],
                        [k |-> FieldKey[FEntityType], v |-> StrV(PyStr(Get(r, FEntityType)))]>>,
                      r, <<FVersion, FSourceCount, FCreatedAt, FUpdatedAt, FDeletedAt>>),
            DataEntries(r.data))

EntityStatement(r) ==
    LET pr == EntityProps(r)
        e == MergeClause(<<"e">>, PyStr(Get(r, FEntityType)),
                         CypherLiteral(PropGet(pr, FieldKey[FId])), CypherLiteral(PropGet(pr, FieldKey[FTenantId])))
        as == SetAssignments(pr, {})
        sets == [j \in 1..Len(as) |-> [k |-> as[j].k, lit |-> CypherLiteral(as[j].v)]]
    IN  [kind |-> "entity", merges |-> <<e>>, sets |-> sets,
         text |-> <<"MERGE ">> \o NodeText(e) \o <<"\n">> \o SetProps(<<"e">>, pr, {})
                    \o <<"\n", "RETURN e;">>]

BuildEntityCypher(m) ==
    LET obj == AsObj(m) IN
    IF obj.t = "none" THEN NoneResult
    ELSE IF obj.t # "map" THEN RaiseResult
    ELSE LET sel == SelectRow(Payload(obj.env)) IN
         IF sel.k # "map" THEN NoneResult
         ELSE IF ~EntityRequired(sel.row) THEN NoneResult
         ELSE EntityStatement(sel.row)

RelationshipRequiredNoToType(r) ==
    /\ Truthy(Get(r, FTenantId))
    /\ Truthy(Get(r, FRelationshipType))
    /\ Truthy(Get(r, FId))
    /\ Truthy(Get(r, FFromId))
    /\ Truthy(Get(r, FToId))
    /\ Truthy(Get(r, FFromType))

RelationshipRequired(r) ==
    /\ Truthy(Get(r, FTenantId))
    /\ Truthy(Get(r, FRelationshipType))
    /\ Truthy(Get(r, FId))
    /\ Truthy(Get(r, FFromId))
    /\ Truthy(Get(r, FToId))
    /\ Truthy(Get(r, FFromType))
    /\ Truthy(Get(r, FToType))

RelationshipProps(r) ==
    Overlay(CopyKnown(<<[k |-> FieldKey[FId], v |-> StrV(PyStr(Get(r, FId)))],
                        [k |-> FieldKey[FTenantId], v |-> StrV(PyStr(Get(r, FTenantId)))]>>,
                      r, <<FSourcePlanId, FSourceExecutionId, FCreatedAt, FUpdatedAt, FDeletedAt>>),
            DataEntries(r.data))

RelationshipStatement(r) ==
    LET pr == RelationshipProps(r)
        tenant == CypherLiteral(StrV(PyStr(Get(r, FTenantId))))
        a == MergeClause(<<"a">>, PyStr(Get(r, FFromType)),
                         CypherLiteral(StrV(PyStr(Get(r, FFromId)))), tenant)
        b == MergeClause(<<"b">>, PyStr(Get(r, FToType)),
                         CypherLiteral(StrV(PyStr(Get(r, FToId)))), tenant)
        e == MergeClause(<<"r">>, PyStr(Get(r, FRelationshipType)),
                         CypherLiteral(PropGet(pr, FieldKey[FId])), CypherLiteral(PropGet(pr, FieldKey[FTenantId])))
        as == SetAssignments(pr, {})
        sets == [j \in 1..Len(as) |-> [k |-> as[j].k, lit |-> CypherLiteral(as[j].v)]]
    IN  [kind |-> "relationship", merges |-> <<a, b, e>>, sets |-> sets,
         text |-> <<"MERGE ">> \o NodeText(a) \o <<"\n", "MERGE ">> \o NodeText(b)
                    \o <<"\n", "MERGE (a)-[r:">> \o e.label \o <<" {id: ">> \o e.id
                    \o <<", tenant_id: ">> \o e.tenant \o <<"}]->(b)", "\n">>
                    \o SetProps(<<"r">>, pr, {}) \o <<"\n", "RETURN r;">>]

BuildRelationshipCypher(m) ==
    LET obj == AsObj(m) IN
    IF obj.t = "none" THEN NoneResult
    ELSE IF obj.t # "map" THEN RaiseResult
    ELSE LET sel == SelectRow(Payload(obj.env)) IN
         IF sel.k # "map" THEN NoneResult
         ELSE IF ~RelationshipRequired(sel.row) THEN NoneResult
         ELSE RelationshipStatement(sel.row)

\* the local `row` of a builder when it returns: NoRow when the builder
\* left before the selection or selected nothing
RowOf(m) ==
    LET obj == AsObj(m) IN
    IF obj.t # "map" THEN NoRow ELSE SelectRow(Payload(obj.env))

\* ------------------------------------------------------------------ graph store
\* A graph: nodes [label, props] and edges [src, dst, type, props], props a
\* set of [k, v] with v the literal stored.  A property set to NULL is
\* removed, and a NULL in a pattern equals no stored value.
EmptyGraph == [nodes |-> <<>>, edges |-> <<>>]
NullLit == <<"N", "U", "L", "L">>

KeyProps(id, tenant) ==
    (IF id = NullLit THEN {} ELSE {[k |-> FieldKey[FId], v |-> id]})
        \cup (IF tenant = NullLit THEN {} ELSE {[k |-> FieldKey[FTenantId], v |-> tenant]})

KeyMatches(pr, id, tenant) ==
    /\ id # NullLit
    /\ tenant # NullLit
    /\ [k |-> FieldKey[FId], v |-> id] \in pr
    /\ [k |-> FieldKey[FTenantId], v |-> tenant] \in pr

\* SET x.k = lit
SetProperty(pr, k, l) ==
    {q \in pr : q.k # k} \cup (IF l = NullLit THEN {} ELSE {[k |-> k, v |-> l]})

RECURSIVE ApplySets(_, _)
ApplySets(pr, sets) ==
    IF sets = <<>> THEN pr
    ELSE ApplySets(SetProperty(pr, Head(sets).k, Head(sets).lit), Tail(sets))

\* MERGE (w:label {id: .., tenant_id: ..}): the nodes matching, or one created
MergeNode(g, m) ==
    LET found == {j \in 1..Len(g.nodes) :
                    g.nodes[j].label = m.label /\ KeyMatches(g.nodes[j].props, m.id, m.tenant)}
    IN  IF found # {} THEN [g |-> g, bound |-> found]
        ELSE [g |-> [g EXCEPT !.nodes = Append(@, [label |-> m.label,
                                                   props |-> KeyProps(m.id, m.tenant)])],
              bound |-> {Len(g.nodes) + 1}]

EdgeMatches(e, a, b, m) ==
    e.src = a /\ e.dst = b /\ e.type = m.label /\ KeyMatches(e.props, m.id, m.tenant)

\* MERGE (a)-[r:type {..}]->(b) for one bound pair: the edges matching, or one created
MergeEdge(g, a, b, m) ==
    IF \E j \in 1..Len(g.edges) : EdgeMatches(g.edges[j], a, b, m) THEN g
    ELSE [g EXCEPT !.edges = Append(@, [src |-> a, dst |-> b, type |-> m.label,
                                        props |-> KeyProps(m.id, m.tenant)])]

RECURSIVE MergeEdges(_, _, _)
MergeEdges(g, pairs, m) ==
    IF pairs = {} THEN g
    ELSE LET q == CHOOSE x \in pairs :
                    \A y \in pairs : x[1] < y[1] \/ (x[1] = y[1] /\ x[2] <= y[2])
         IN  MergeEdges(MergeEdge(g, q[1], q[2], m), pairs \ {q}, m)

HasNullKey(c) == \E j \in 1..Len(c.merges) : c.merges[j].id = NullLit \/ c.merges[j].tenant = NullLit

ApplyEntity(g, c) ==
    LET r == MergeNode(g, c.merges[1])
    IN  [g |-> [r.g EXCEPT !.nodes = [j \in 1..Len(r.g.nodes) |->
                    IF j \in r.bound
                    THEN [r.g.nodes[j] EXCEPT !.props = ApplySets(@, c.sets)]
                    ELSE r.g.nodes[j]]],
         bound |-> r.bound]

ApplyRelationship(g, c) ==
    LET a == MergeNode(g, c.merges[1])
        b == MergeNode(a.g, c.merges[2])
        g3 == MergeEdges(b.g, a.bound \X b.bound, c.merges[3])
        rs == {j \in 1..Len(g3.edges) :
                \E x \in a.bound, y \in b.bound : EdgeMatches(g3.edges[j], x, y, c.merges[3])}
        new == IF rs = {} THEN (Len(b.g.edges) + 1)..Len(g3.edges) ELSE rs
    IN  [g |-> [g3 EXCEPT !.edges = [j \in 1..Len(g3.edges) |->
                    IF j \in new
                    THEN [g3.edges[j] EXCEPT !.props = ApplySets(@, c.sets)]
                    ELSE g3.edges[j]]],
         bound |-> new]

\* One execution of a statement.  eng is the engine's treatment of a NULL in
\* a MERGE key: "reject" (the statement fails, nothing changes) or "create"
\* (nothing matches, the element is created).
ApplyStatement(g, c, eng) ==
    IF HasNullKey(c) /\ eng = "reject" THEN [g |-> g, bound |-> {}]
    ELSE IF c.kind = "entity" THEN ApplyEntity(g, c)
    ELSE ApplyRelationship(g, c)

\* ------------------------------------------------------------------ reference grammar
\* The body of a quoted literal read back: a backslash followed by a
\* character denotes that character.
RECURSIVE Unescape(_)
Unescape(b) ==
    IF b = <<>> THEN <<>>
    ELSE IF Head(b) = BS
         THEN IF Len(b) = 1 THEN <<"?">> ELSE <<b[2]>> \o Unescape(SubSeq(b, 3, Len(b)))
         ELSE <<Head(b)>> \o Unescape(Tail(b))

\* TRUE iff reading b left to right meets a quote that no backslash escapes,
\* or a backslash with nothing after it (which would escape the closing quote).
RECURSIVE EndsEarly(_)
EndsEarly(b) ==
    IF b = <<>> THEN FALSE
    ELSE IF Head(b) = BS
         THEN IF Len(b) = 1 THEN TRUE ELSE EndsEarly(SubSeq(b, 3, Len(b)))
         ELSE Head(b) = QT \/ EndsEarly(Tail(b))

Body(q) == SubSeq(q, 2, Len(q) - 1)

\* ------------------------------------------------------------------ encoder specification
ListVals == {ListV(<<>>), ListV(<<NumV(7)>>), ListV(<<StrV(<<QT>>), NoneV>>), MapV(0, <<"{", "}">>),
             MapV(1, <<"{", "\"", "k", "\"", ":", "\"", QT, "\"", "}">>)}
ScalarVals == {NoneV, BoolV(TRUE), BoolV(FALSE), NumV(0), NumV(7), NumV(-12)}

IdleLiteral == v = NoneV /\ lit = <<>>
IdleSet == var = <<>> /\ props = <<>> /\ skip = {} /\ clauses = <<>>
IdleBatch == transform = "none" /\ messages = <<>> /\ i = 0 /\ result = <<>>
IdleGraph == graph = EmptyGraph /\ first = EmptyGraph /\ bound = {} /\ engine = "none"
IdleBuild ==
    /\ message_value = [kind |-> "none", doc |-> NoDoc]
    /\ row = NoRow
    /\ cypher = NoneResult

InitLiteral ==
    /\ pc = "input"
    /\ \/ v \in ScalarVals \cup ListVals
       \/ \E n \in 0..MaxLen : \E x \in TextsOfLen(n) : v = StrV(x)
    /\ lit = <<>>
    /\ IdleSet
    /\ IdleBuild
    /\ IdleBatch
    /\ IdleGraph

Encode ==
    /\ pc = "input"
    /\ lit' = CypherLiteral(v)
    /\ pc' = "encoded"
    /\ UNCHANGED <<v, setVars, buildVars, batchVars, graphVars>>

NextLiteral == Encode

SpecLiteral == InitLiteral /\ [][NextLiteral]_vars

\* ------------------------------------------------------------------ builder specification
\* values a required field takes: not in the row, falsy ones, truthy ones
ReqVals == {AbsentV, NoneV, StrV(<<>>), NumV(0), BoolV(FALSE), ListV(<<>>), MapV(0, <<"{", "}">>),
            StrV(<<"e", "1">>), NumV(7), BoolV(TRUE), ListV(<<NumV(7)>>)}
FewVals == {AbsentV, StrV(<<>>), StrV(<<"x", "1">>)}

KName == <<"n", "a", "m", "e">>
KSnake == <<"a", "_", "1">>
KDigit == <<"1", "a">>
KUnder == <<"_">>
KDash == <<"a", "-", "b">>
KSpace == <<"a", " ">>
KEmpty == <<>>
DataKeys == {FieldKey[FId], FieldKey[FTenantId], FieldKey[FEntityType], KName, KDash}
DataVals == {StrV(<<"A", "d", "a">>), NoneV, NumV(5)}

RECURSIVE EntriesOfLen(_)
EntriesOfLen(n) ==
    IF n = 0 THEN {<<>>}
    ELSE {Append(pr, [k |-> k, v |-> x]) :
            pr \in EntriesOfLen(n - 1), k \in DataKeys, x \in DataVals}

\* the mappings of n entries: no key twice
DataMaps(n) == {pr \in EntriesOfLen(n) : \A a, b \in 1..Len(pr) : pr[a].k = pr[b].k => a = b}

\* the `data` field: absent, null, empty text, text that is no JSON, text of
\* a JSON list, a number, a mapping, text of a JSON mapping
AllData(n) ==
    {[k |-> x, m |-> IF x \in {"map", "text_map"} THEN m ELSE <<>>] :
        x \in {"absent", "null", "text_empty", "text_bad", "text_list", "num", "map", "text_map"},
        m \in DataMaps(n)}
FewData == {NoData,
            [k |-> "map", m |-> <<[k |-> KName, v |-> StrV(<<"A", "d", "a">>)]>>],
            [k |-> "text_map", m |-> <<[k |-> FieldKey[FId], v |-> StrV(<<"x", "9">>)]>>]}

EntityRow(a, b, c, w, d) ==
    [f |-> [id |-> a, tenant_id |-> b, entity_type |-> c, version |-> w,
          source_count |-> AbsentV, created_at |-> AbsentV, updated_at |-> AbsentV,
          deleted_at |-> AbsentV, relationship_type |-> AbsentV,
          from_merged_entity_id |-> AbsentV, to_merged_entity_id |-> AbsentV,
          from_entity_type |-> AbsentV, to_entity_type |-> AbsentV,
          source_plan_id |-> AbsentV, source_execution_id |-> AbsentV],
     data |-> d]

RelationshipRow(t, ty, id, fi, ti, ft, tt, sp, d) ==
    [f |-> [id |-> id, tenant_id |-> t, entity_type |-> AbsentV, version |-> AbsentV,
          source_count |-> AbsentV, created_at |-> AbsentV, updated_at |-> AbsentV,
          deleted_at |-> AbsentV, relationship_type |-> ty, from_merged_entity_id |-> fi,
          to_merged_entity_id |-> ti, from_entity_type |-> ft, to_entity_type |-> tt,
          source_plan_id |-> sp, source_execution_id |-> AbsentV],
     data |-> d]

GoodEntity(id, d) == EntityRow(StrV(id), StrV(<<"t", "1">>), StrV(<<"P", "e", "r", "s", "o", "n">>), NumV(3), d)
GoodRelationship(id, d) ==
    RelationshipRow(StrV(<<"t", "1">>), StrV(<<"K", "N", "O", "W", "S">>), StrV(id), StrV(<<"e", "1">>), StrV(<<"e", "2">>),
                    StrV(<<"P", "e", "r", "s", "o", "n">>), StrV(<<"O", "r", "g">>), AbsentV, d)

\* entity rows: the three required fields vary / the data blob varies
EntityReqRows ==
    {EntityRow(a, b, c, AbsentV, d) : a \in ReqVals, b \in ReqVals, c \in ReqVals, d \in FewData}
EntityDataRows(n) ==
    {EntityRow(StrV(<<"e", "1">>), StrV(<<"t", "1">>), StrV(<<"P", "e", "r", "s", "o", "n">>), w, d) :
        w \in {AbsentV, NoneV, NumV(3)}, d \in AllData(n)}

\* relationship rows: each required field present or not / one required
\* field takes any value / the data blob varies
RelationshipReqRows ==
    {RelationshipRow(t, ty, id, fi, ti, ft, tt, AbsentV, NoData) :
        t \in FewVals, ty \in FewVals, id \in FewVals, fi \in FewVals, ti \in FewVals,
        ft \in FewVals, tt \in FewVals}
RelationshipOneRows ==
    {[f |-> [GoodRelationship(<<"r", "1">>, d).f EXCEPT ![x] = y], data |-> d] :
        x \in {FTenantId, FRelationshipType, FId, FFromId, FToId, FFromType, FToType},
        y \in ReqVals, d \in FewData}
RelationshipDataRows(n) ==
    {RelationshipRow(StrV(<<"t", "1">>), StrV(<<"K", "N", "O", "W", "S">>), StrV(<<"r", "1">>),
                     NumV(7), StrV(<<"e", "1">>), StrV(<<"P", "e", "r", "s", "o", "n">>),
                     StrV(<<"P", "e", "r", "s", "o", "n">>), sp, d) :
        sp \in {AbsentV, NoneV, StrV(<<"p", "1">>)}, d \in AllData(n)}

\* the snapshots of the envelopes whose shape varies
SmallRows == {GoodEntity(<<"e", "1">>, NoData), GoodEntity(<<"e", "2">>, NoData),
              GoodRelationship(<<"r", "1">>, NoData), GoodRelationship(<<"r", "2">>, NoData),
              EntityRow(AbsentV, StrV(<<"t", "1">>), StrV(<<"P", "e", "r", "s", "o", "n">>), AbsentV, NoData)}
Snaps == {[k |-> x, row |-> EmptyRow] : x \in {"absent", "null", "other"}}
            \cup {MapSnap(r) : r \in SmallRows}
Ops == {"absent", "c", "u", "d"}
Inners == [op : Ops, after : Snaps, before : Snaps]
Decoy == [op |-> "c", after |-> MapSnap(GoodEntity(<<"z", "z">>, NoData)), before |-> NoRow]

Envelopes ==
    {[pk |-> x, inner |-> EmptyInner, top |-> e] : x \in {"absent", "other"}, e \in Inners}
    \cup {[pk |-> "map", inner |-> e, top |-> t] : e \in Inners, t \in {EmptyInner, Decoy}}

RowEnvelope(r) ==
    [pk |-> "absent", inner |-> EmptyInner,
     top |-> [op |-> "c", after |-> MapSnap(r), before |-> NoRow]]

MapDoc(e) == [t |-> "map", env |-> e]
OtherDocs == {[t |-> x, env |-> EmptyEnv] : x \in {"bad", "null", "bool", "num", "str", "list"}}

\* messages that decode to no mapping / envelopes of every shape
PlainMessages ==
    {[kind |-> x, doc |-> NoDoc] : x \in {"none", "bytes_bad", "other"}}
    \cup {[kind |-> x, doc |-> d] : x \in {"bytes", "text"}, d \in OtherDocs}
EnvelopeMessages ==
    {[kind |-> x, doc |-> MapDoc(e)] : x \in {"bytes", "text", "dict"}, e \in Envelopes}
RowMessage(r) == [kind |-> "bytes", doc |-> MapDoc(RowEnvelope(r))]

InitBuild ==
    /\ pc = "input"
    /\ \/ message_value \in PlainMessages
       \/ message_value \in EnvelopeMessages
       \/ \E r \in EntityReqRows : message_value = RowMessage(r)
       \/ \E n \in 0..MaxData : \E r \in EntityDataRows(n) : message_value = RowMessage(r)
       \/ \E r \in RelationshipReqRows : message_value = RowMessage(r)
       \/ \E r \in RelationshipOneRows : message_value = RowMessage(r)
       \/ \E n \in 0..MaxData : \E r \in RelationshipDataRows(n) : message_value = RowMessage(r)
    /\ row = NoRow
    /\ cypher = NoneResult
    /\ IdleLiteral
    /\ IdleSet
    /\ IdleBatch
    /\ IdleGraph

BuildEntity ==
    /\ pc = "input"
    /\ row' = RowOf(message_value)
    /\ cypher' = BuildEntityCypher(message_value)
    /\ pc' = "entity"
    /\ UNCHANGED <<message_value, literalVars, setVars, batchVars, graphVars>>

BuildRelationship ==
    /\ pc = "input"
    /\ row' = RowOf(message_value)
    /\ cypher' = BuildRelationshipCypher(message_value)
    /\ pc' = "relationship"
    /\ UNCHANGED <<message_value, literalVars, setVars, batchVars, graphVars>>

NextBuild == BuildEntity \/ BuildRelationship

SpecBuild == InitBuild /\ [][NextBuild]_vars

Built == pc \in {"entity", "relationship"}

\* C1: no exception leaves a builder, and a message that does not decode
\* to a mapping yields None.
NoExceptionEscapes ==
    Built =>
        /\ cypher.kind # "raise"
        /\ (message_value.kind \notin {"bytes", "text", "dict"} \/ message_value.doc.t # "map")
                => cypher.kind = "none"

\* C2: the entity builder returns a statement only when id, tenant_id and
\* entity_type of the selected row are all present and truthy, and None
\* whenever one of them is missing or falsy.
EntityNeedsAllThree ==
    (pc = "entity" /\ row.k = "map") =>
        LET ok == /\ Has(row.row, FId) /\ Truthy(row.row.f[FId])
                  /\ Has(row.row, FTenantId) /\ Truthy(row.row.f[FTenantId])
                  /\ Has(row.row, FEntityType) /\ Truthy(row.row.f[FEntityType])
        IN  /\ cypher.kind = "entity" => ok
            /\ ~ok => cypher.kind = "none"

EntityNeedsAllThreeWitness ==
    /\ pc = "entity"
    /\ row.k = "map"
    /\ row.row.f[FId] = StrV(<<"e", "1">>)
    /\ row.row.f[FTenantId] = NumV(0)
    /\ row.row.f[FEntityType] = StrV(<<"e", "1">>)
    /\ row.row.data.k = "map"
    /\ cypher.kind = "none"

\* C3: the relationship builder returns a statement only when all seven
\* required fields of the selected row are present and truthy, and None
\* whenever one of them is missing or falsy.
RelationshipNeedsAllSeven ==
    (pc = "relationship" /\ row.k = "map") =>
        LET ok == \A x \in {FTenantId, FRelationshipType, FId, FFromId, FToId, FFromType, FToType} :
                        Has(row.row, x) /\ Truthy(row.row.f[x])
        IN  /\ cypher.kind = "relationship" => ok
            /\ ~ok => cypher.kind = "none"

RelationshipNeedsAllSevenWitness ==
    /\ pc = "relationship"
    /\ row.k = "map"
    /\ \A x \in {FTenantId, FRelationshipType, FId, FFromId, FToId, FFromType} :
            Truthy(row.row.f[x])
    /\ row.row.f[FToType] = AbsentV
    /\ cypher.kind = "none"

\* C4: the row is `after` when `after` is a mapping, else `before` when
\* `before` is a mapping, else there is none and neither builder returns a
\* statement; the op code plays no part.
DecodedEnvelope ==
    IF message_value.doc.env.pk = "map" THEN message_value.doc.env.inner
    ELSE message_value.doc.env.top

RowSelection ==
    (Built /\ message_value.kind \in {"bytes", "text", "dict"} /\ message_value.doc.t = "map") =>
        /\ DecodedEnvelope.after.k = "map" => row = DecodedEnvelope.after
        /\ (DecodedEnvelope.after.k # "map" /\ DecodedEnvelope.before.k = "map")
                => row = DecodedEnvelope.before
        /\ (DecodedEnvelope.after.k # "map" /\ DecodedEnvelope.before.k # "map")
                => (row = NoRow /\ cypher.kind = "none")

RowSelectionWitness ==
    /\ pc = "entity"
    /\ message_value.doc.t = "map"
    /\ DecodedEnvelope.op = "d"
    /\ DecodedEnvelope.after.k = "map"
    /\ DecodedEnvelope.before.k = "map"
    /\ DecodedEnvelope.after # DecodedEnvelope.before
    /\ row = DecodedEnvelope.after
    /\ cypher.kind = "entity"

\* C7: an accepted entity message merges a node labeled by the row's
\* entity_type and keyed by the row's id and tenant_id coerced to text.
EntityKeyIsRowKey ==
    (pc = "entity" /\ cypher.kind = "entity") =>
        /\ Len(cypher.merges) = 1
        /\ cypher.merges[1].label = PyStr(row.row.f[FEntityType])
        /\ cypher.merges[1].id = CypherLiteral(StrV(PyStr(row.row.f[FId])))
        /\ cypher.merges[1].tenant = CypherLiteral(StrV(PyStr(row.row.f[FTenantId])))

\* C10: in an accepted relationship statement the edge and both endpoint
\* nodes carry the same tenant_id literal, and the edge's id is the row's id.
RelationshipTenantConsistent ==
    (pc = "relationship" /\ cypher.kind = "relationship") =>
        /\ Len(cypher.merges) = 3
        /\ cypher.merges[3].tenant = cypher.merges[1].tenant
        /\ cypher.merges[3].tenant = cypher.merges[2].tenant
        /\ cypher.merges[3].id = CypherLiteral(StrV(PyStr(row.row.f[FId])))

\* ------------------------------------------------------------------ transformation specification
DataOf(k, x) == [k |-> "map", m |-> <<[k |-> k, v |-> x]>>]

BatchMessages ==
    {RowMessage(GoodEntity(<<"e", "1">>, NoData)),
     RowMessage(GoodEntity(<<"e", "1">>, DataOf(KName, StrV(<<"A", "d", "a">>)))),
     RowMessage(EntityRow(AbsentV, StrV(<<"t", "1">>), StrV(<<"P", "e", "r", "s", "o", "n">>), AbsentV, NoData)),
     RowMessage(GoodRelationship(<<"r", "1">>, NoData)),
     [kind |-> "none", doc |-> NoDoc],
     [kind |-> "bytes", doc |-> [t |-> "list", env |-> EmptyEnv]]}

RECURSIVE BatchesOfLen(_)
BatchesOfLen(n) ==
    IF n = 0 THEN {<<>>}
    ELSE {Append(b, m) : b \in BatchesOfLen(n - 1), m \in BatchMessages}

InitBatch ==
    /\ pc = "loop"
    /\ transform \in {"entity", "relationship"}
    /\ \E n \in 0..MaxBatch : messages \in BatchesOfLen(n)
    /\ i = 0
    /\ result = <<>>
    /\ IdleLiteral
    /\ IdleSet
    /\ IdleBuild
    /\ IdleGraph

\* mgp.Record(query=cypher, parameters=None)
Record(c) == [query |-> c.text, parameters |-> NoneV]

\* `if cypher:`
IsStatement(c) == c.kind # "none" /\ c.text # <<>>

\* one turn of the loop, the builder's result being c
Turn(c) ==
    IF c.kind = "raise"
    THEN /\ pc' = "raised"
         /\ UNCHANGED <<i, result>>
    ELSE /\ pc' = pc
         /\ i' = i + 1
         /\ result' = IF IsStatement(c) THEN Append(result, Record(c)) ELSE result

TransformMergedEntity ==
    /\ pc = "loop"
    /\ transform = "entity"
    /\ i < Len(messages)
    /\ Turn(BuildEntityCypher(messages[i + 1]))
    /\ UNCHANGED <<transform, messages, literalVars, setVars, buildVars, graphVars>>

TransformMergedRelationship ==
    /\ pc = "loop"
    /\ transform = "relationship"
    /\ i < Len(messages)
    /\ Turn(BuildRelationshipCypher(messages[i + 1]))
    /\ UNCHANGED <<transform, messages, literalVars, setVars, buildVars, graphVars>>

Return ==
    /\ pc = "loop"
    /\ i = Len(messages)
    /\ pc' = "returned"
    /\ UNCHANGED <<literalVars, setVars, buildVars, batchVars, graphVars>>

NextBatch == TransformMergedEntity \/ TransformMergedRelationship \/ Return

SpecBatch == InitBatch /\ [][NextBatch]_vars

Builder(m) == IF transform = "entity" THEN BuildEntityCypher(m) ELSE BuildRelationshipCypher(m)

RECURSIVE ExpectedRecords(_)
ExpectedRecords(ms) ==
    IF ms = <<>> THEN <<>>
    ELSE (IF Builder(Head(ms)).kind \in {"entity", "relationship"}
          THEN <<[query |-> Builder(Head(ms)).text, parameters |-> NoneV]>>
          ELSE <<>>) \o ExpectedRecords(Tail(ms))

\* C8: a transformation returns, for every batch, one record {query,
\* parameters = null} per message whose builder gave a statement, none for
\* the others, in the order of the messages.
BatchRecordsInOrder ==
    pc \in {"returned", "raised"} => (pc = "returned" /\ result = ExpectedRecords(messages))

\* ------------------------------------------------------------------ execution specification
Stored(id, name) ==
    {[k |-> FieldKey[FId], v |-> id], [k |-> FieldKey[FTenantId], v |-> <<QT, "t", "1", QT>>],
     [k |-> KName, v |-> name]}

StartGraphs ==
    {EmptyGraph,
     [nodes |-> <<[label |-> <<"P", "e", "r", "s", "o", "n">>, props |-> Stored(<<QT, "e", "1", QT>>, <<QT, "B", QT>>)]>>,
      edges |-> <<>>],
     [nodes |-> <<[label |-> <<"P", "e", "r", "s", "o", "n">>, props |-> Stored(<<QT, "e", "1", QT>>, <<QT, "B", QT>>)],
                  [label |-> <<"P", "e", "r", "s", "o", "n">>, props |-> Stored(<<QT, "e", "1", QT>>, <<QT, "C", QT>>)]>>,
      edges |-> <<>>],
     [nodes |-> <<[label |-> <<"O", "r", "g">>, props |-> Stored(<<QT, "e", "1", QT>>, <<QT, "B", QT>>)],
                  [label |-> <<"P", "e", "r", "s", "o", "n">>, props |-> Stored(<<QT, "e", "2", QT>>, <<QT, "C", QT>>)]>>,
      edges |-> <<>>]}

ExecDataVals == {StrV(<<"A", "d", "a">>), NoneV, NumV(5)}
ExecData == {NoData} \cup {DataOf(k, x) : k \in {FieldKey[FId], FieldKey[FTenantId], KName}, x \in ExecDataVals}

ExecMessages ==
    {RowMessage(GoodEntity(<<"e", "1">>, d)) : d \in ExecData}
    \cup {RowMessage(GoodRelationship(<<"r", "1">>, d)) : d \in ExecData}
    \cup {RowMessage(RelationshipRow(StrV(<<"t", "1">>), StrV(<<"K", "N", "O", "W", "S">>), StrV(<<"r", "1">>), StrV(<<"e", "1">>), StrV(<<"e", "1">>),
                                     StrV(<<"P", "e", "r", "s", "o", "n">>), StrV(<<"P", "e", "r", "s", "o", "n">>), AbsentV, NoData))}

InitExec ==
    /\ pc = "fresh"
    /\ message_value \in ExecMessages
    /\ \/ cypher = BuildEntityCypher(message_value)
       \/ cypher = BuildRelationshipCypher(message_value)
    /\ cypher.kind \in {"entity", "relationship"}
    /\ row = RowOf(message_value)
    /\ graph \in StartGraphs
    /\ first = graph
    /\ bound = {}
    /\ engine \in {"reject", "create"}
    /\ IdleLiteral
    /\ IdleSet
    /\ IdleBatch

ExecuteFirst ==
    /\ pc = "fresh"
    /\ LET r == ApplyStatement(graph, cypher, engine)
       IN  graph' = r.g /\ first' = r.g /\ bound' = r.bound
    /\ pc' = "once"
    /\ UNCHANGED <<engine, literalVars, setVars, buildVars, batchVars>>

ExecuteAgain ==
    /\ pc = "once"
    /\ LET r == ApplyStatement(graph, cypher, engine)
       IN  graph' = r.g /\ bound' = r.bound
    /\ pc' = "twice"
    /\ UNCHANGED <<first, engine, literalVars, setVars, buildVars, batchVars>>

NextExec == ExecuteFirst \/ ExecuteAgain

SpecExec == InitExec /\ [][NextExec]_vars

PropKeys == {KName, KSnake, KDigit, KUnder, KDash, KSpace, KEmpty}
PropVals == {NumV(7), StrV(<<QT>>)}

RECURSIVE PropMapsOfLen(_)
PropMapsOfLen(n) ==
    IF n = 0 THEN {<<>>}
    ELSE {Append(pr, [k |-> k, v |-> x]) :
            pr \in PropMapsOfLen(n - 1), k \in PropKeys, x \in PropVals}

\* a mapping holds no key twice
DistinctKeys(pr) == \A a, b \in 1..Len(pr) : pr[a].k = pr[b].k => a = b

InitSet ==
    /\ pc = "input"
    /\ var \in {<<"e">>, <<"r">>}
    /\ \E n \in 0..MaxProps : props \in {pr \in PropMapsOfLen(n) : DistinctKeys(pr)}
    /\ skip \in {{}, {KName}}
    /\ clauses = <<>>
    /\ IdleLiteral
    /\ IdleBuild
    /\ IdleBatch
    /\ IdleGraph

RenderSetClauses ==
    /\ pc = "input"
    /\ clauses' = SetPropsClauses(var, props, skip)
    /\ pc' = "rendered"
    /\ UNCHANGED <<var, props, skip, literalVars, buildVars, batchVars, graphVars>>

NextSet == RenderSetClauses

SpecSet == InitSet /\ [][NextSet]_vars

\* a non-empty key made only of letters, digits and underscores
IsIdentifierKey(k) == k # <<>> /\ \A j \in 1..Len(k) : k[j] \in Letters \cup Digits \cup {"_"}

RECURSIVE ExpectedClauses(_, _, _)
ExpectedClauses(w, pr, sk) ==
    IF pr = <<>> THEN <<>>
    ELSE (IF Head(pr).k \notin sk /\ IsIdentifierKey(Head(pr).k)
          THEN <<<<"S", "E", "T", " ">> \o w \o <<".">> \o Head(pr).k \o <<" ", "=", " ">>
                    \o CypherLiteral(Head(pr).v)>>
          ELSE <<>>) \o ExpectedClauses(w, Tail(pr), sk)

\* C5: one clause for each non-excluded key made only of letters, digits and
\* underscores, none for any other key, in the mapping's iteration order.
KeyFilterExact ==
    pc = "rendered" => clauses = ExpectedClauses(var, props, skip)

\* C6: the literal of a text is quoted, its body read by the reference
\* grammar is the text itself, and the body has no unescaped quote.
TextLiteralRoundTrip ==
    (pc = "encoded" /\ v.t = "str") =>
        /\ Len(lit) >= 2
        /\ lit[1] = QT
        /\ lit[Len(lit)] = QT
        /\ Unescape(Body(lit)) = v.s
        /\ ~EndsEarly(Body(lit))

TextLiteralWitness ==
    /\ pc = "encoded"
    /\ v = StrV(<<"a", BS, QT>>)
    /\ lit = <<QT, "a", BS, BS, BS, QT, QT>>

====
